---- MODULE Spec2Model ----
(***************************************************************************)
(* Model of src/fullapi.php: one HTTP request served by FootballAPI.       *)
(*                                                                         *)
(* PHP strings are sequences of one-character strings, so that the string  *)
(* functions the code calls (strtolower, strcasecmp, htmlspecialchars,     *)
(* filter_var, str_starts_with) are computed character by character.       *)
(* PHP values are tagged: StrV(s), IntV(n) or Null.  The file is compiled    *)
(* with declare(strict_types=1), so a call that passes an Int or Null      *)
(* where the callee declares `string` raises a TypeError, which is an      *)
(* \Error and not an \Exception.                                           *)
(***************************************************************************)
EXTENDS Integers, Sequences, FiniteSets, TLC

VARIABLES source, get, now, pc, matches, params, filteredMatches, page, pageSize,
          paginatedMatches, teamAnalysis, prediction, response, ran

vars == <<source, get, now, pc, matches, params, filteredMatches, page, pageSize,
          paginatedMatches, teamAnalysis, prediction, response, ran>>

(***************************************************************************)
(* Bounds of the model                                                     *)
(***************************************************************************)
MaxLen == 2

MaxParams == 2

(***************************************************************************)
(* Program constants                                                       *)
(***************************************************************************)
DEFAULT_PAGE_SIZE == 100

MAX_PAGE_SIZE == 500

(***************************************************************************)
(* PHP values                                                              *)
(***************************************************************************)
StrV(s) == [t |-> "str", s |-> s, n |-> 0]

IntV(n) == [t |-> "int", s |-> <<>>, n |-> n]

Null == [t |-> "null", s |-> <<>>, n |-> 0]

\* isset($x): the entry exists and is not null
IsSet(v) == v.t # "null"

\* empty($x) for a string or null: null, "" and "0" are empty
Empty(v) ==
    \/ v.t = "null"
    \/ v.t = "str" /\ (v.s = <<>> \/ v.s = <<"0">>)
    \/ v.t = "int" /\ v.n = 0

(***************************************************************************)
(* String functions                                                        *)
(***************************************************************************)
LowerChar(c) ==
    CASE c = "A" -> "a"
      [] c = "B" -> "b"
      [] c = "C" -> "c"
      [] c = "E" -> "e"
      [] c = "F" -> "f"
      [] c = "L" -> "l"
      [] c = "R" -> "r"
      [] c = "S" -> "s"
      [] c = "T" -> "t"
      [] c = "U" -> "u"
      [] OTHER -> c

strtolower(s) == [i \in 1..Len(s) |-> LowerChar(s[i])]

\* strcasecmp($a, $b) === 0
strcasecmpEq(a, b) == strtolower(a) = strtolower(b)

str_starts_with(s, prefix) ==
    /\ Len(s) >= Len(prefix)
    /\ SubSeq(s, 1, Len(prefix)) = prefix

EscapeChar(c) ==
    CASE c = "&" -> <<"&", "a", "m", "p", ";">>
      [] c = "<" -> <<"&", "l", "t", ";">>
      [] c = ">" -> <<"&", "g", "t", ";">>
      [] c = "\"" -> <<"&", "q", "u", "o", "t", ";">>
      [] c = "'" -> <<"&", "#", "0", "3", "9", ";">>
      [] OTHER -> <<c>>

RECURSIVE htmlspecialchars(_)
htmlspecialchars(s) ==
    IF s = <<>> THEN <<>>
    ELSE EscapeChar(Head(s)) \o htmlspecialchars(Tail(s))

Digits == {"0", "1", "2", "3", "4", "5", "6", "7", "8", "9"}

DigitVal(c) ==
    CASE c = "0" -> 0 [] c = "1" -> 1 [] c = "2" -> 2 [] c = "3" -> 3
      [] c = "4" -> 4 [] c = "5" -> 5 [] c = "6" -> 6 [] c = "7" -> 7
      [] c = "8" -> 8 [] c = "9" -> 9

AllDigits(s) == s # <<>> /\ \A i \in 1..Len(s) : s[i] \in Digits

RECURSIVE DecimalVal(_)
DecimalVal(s) ==
    IF s = <<>> THEN 0
    ELSE 10 * DecimalVal(SubSeq(s, 1, Len(s) - 1)) + DigitVal(s[Len(s)])

\* filter_var($value, FILTER_VALIDATE_INT) !== false : an optional sign and a
\* decimal numeral without leading zeros
filter_validate_int(s) ==
    LET body == IF s # <<>> /\ s[1] \in {"-", "+"} THEN Tail(s) ELSE s
    IN  /\ AllDigits(body)
        /\ (Len(body) > 1 => body[1] # "0")

\* (int)$value for a string that passed FILTER_VALIDATE_INT
IntCast(s) ==
    IF s # <<>> /\ s[1] = "-" THEN 0 - DecimalVal(Tail(s))
    ELSE IF s # <<>> /\ s[1] = "+" THEN DecimalVal(Tail(s))
    ELSE DecimalVal(s)

\* is_numeric($value) on the values of the model: a signed decimal numeral
\* with an optional fraction
is_numeric(s) ==
    LET body == IF s # <<>> /\ s[1] \in {"-", "+"} THEN Tail(s) ELSE s
        dots == {i \in 1..Len(body) : body[i] = "."}
    IN  \/ AllDigits(body)
        \/ /\ Cardinality(dots) = 1
           /\ LET d == CHOOSE i \in dots : TRUE
              IN  /\ AllDigits(SubSeq(body, 1, d - 1) \o SubSeq(body, d + 1, Len(body)))

Max(a, b) == IF a >= b THEN a ELSE b

Min(a, b) == IF a <= b THEN a ELSE b

(***************************************************************************)
(* Dates.  A date string of the model is "YYYY-MM-DD".  strtotime and      *)
(* new \DateTime use the same parser; the timestamp of midnight UTC is     *)
(* 86400 * DaysFromCivil, and every comparison the code makes between      *)
(* timestamps is a comparison of the day numbers, which is what the model  *)
(* keeps (a 64-bit timestamp does not fit the checker's integers).         *)
(***************************************************************************)
DaysFromCivil(y, m, d) ==
    LET yy == IF m <= 2 THEN y - 1 ELSE y
        era == yy \div 400
        yoe == yy - era * 400
        mp == (m + 9) % 12
        doy == (153 * mp + 2) \div 5 + d - 1
        doe == yoe * 365 + yoe \div 4 - yoe \div 100 + doy
    IN  era * 146097 + doe - 719468

DateParses(s) ==
    /\ Len(s) = 10
    /\ s[5] = "-" /\ s[8] = "-"
    /\ AllDigits(SubSeq(s, 1, 4)) /\ AllDigits(SubSeq(s, 6, 7))
    /\ AllDigits(SubSeq(s, 9, 10))
    /\ DecimalVal(SubSeq(s, 6, 7)) \in 1..12
    /\ DecimalVal(SubSeq(s, 9, 10)) \in 1..31

DateDays(s) ==
    DaysFromCivil(DecimalVal(SubSeq(s, 1, 4)), DecimalVal(SubSeq(s, 6, 7)),
                  DecimalVal(SubSeq(s, 9, 10)))

\* strtotime($s): [ok |-> FALSE] stands for the boolean false it returns for
\* a string that is not a date
strtotime(s) ==
    IF DateParses(s) THEN [ok |-> TRUE, ts |-> DateDays(s)]
    ELSE [ok |-> FALSE, ts |-> 0]

\* new \DateTime($s): the empty string is read as "now", the time of the
\* request; [ok |-> FALSE] stands for the \Exception thrown for a string that
\* is not a date
NewDateTime(s) ==
    IF s = <<>> THEN [ok |-> TRUE, ts |-> now]
    ELSE IF DateParses(s) THEN [ok |-> TRUE, ts |-> DateDays(s)]
    ELSE [ok |-> FALSE, ts |-> 0]

(***************************************************************************)
(* Match records.  Every field holds a PHP value; Null stands for a field  *)
(* that is absent (isset is false for both).  score.set is FALSE when the  *)
(* record has no score array.                                              *)
(***************************************************************************)
NoScore == [set |-> FALSE, home |-> Null, away |-> Null]

Score(h, a) == [set |-> TRUE, home |-> h, away |-> a]

Match(h, a, d, sc, lg) ==
    [home_team |-> h, away_team |-> a, date |-> d, score |-> sc, league |-> lg]

\* isset($match['score'][$side])
IssetScore(match, side) ==
    /\ match.score.set
    /\ IF side = <<"h", "o", "m", "e">> THEN IsSet(match.score.home)
       ELSE IF side = <<"a", "w", "a", "y">> THEN IsSet(match.score.away)
       ELSE FALSE

ScoreField(match, side) ==
    IF side = <<"h", "o", "m", "e">> THEN match.score.home ELSE match.score.away

\* $match[$key] for a top-level key
TopField(match, key) ==
    CASE key = <<"h", "o", "m", "e", "_", "t", "e", "a", "m">> -> match.home_team
      [] key = <<"a", "w", "a", "y", "_", "t", "e", "a", "m">> -> match.away_team
      [] key = <<"d", "a", "t", "e">> -> match.date
      [] key = <<"l", "e", "a", "g", "u", "e">> -> match.league
      [] OTHER -> Null

\* (int)$v of a score value: integers are kept, a numeric string is read as
\* its leading integer, any other string is 0
ScoreInt(v) ==
    IF v.t = "int" THEN v.n
    ELSE IF v.t = "str" /\ filter_validate_int(v.s) THEN IntCast(v.s)
    ELSE 0

RECURSIVE IntDigits(_)
IntDigits(n) ==
    IF n < 10 THEN <<CHOOSE c \in Digits : DigitVal(c) = n>>
    ELSE IntDigits(n \div 10) \o <<CHOOSE c \in Digits : DigitVal(c) = n % 10>>

\* (string)$v
StringCast(v) ==
    IF v.t = "str" THEN v.s
    ELSE IF v.t = "int" THEN (IF v.n < 0 THEN <<"-">> \o IntDigits(0 - v.n) ELSE IntDigits(v.n))
    ELSE <<>>

(***************************************************************************)
(* Parameter keys                                                          *)
(***************************************************************************)
K_team == <<"t", "e", "a", "m">>

K_home_team == <<"h", "o", "m", "e", "_", "t", "e", "a", "m">>

K_away_team == <<"a", "w", "a", "y", "_", "t", "e", "a", "m">>

K_date == <<"d", "a", "t", "e">>

K_both_teams_scored ==
    <<"b", "o", "t", "h", "_", "t", "e", "a", "m", "s", "_", "s", "c", "o", "r", "e", "d">>

K_page == <<"p", "a", "g", "e">>

K_page_size == <<"p", "a", "g", "e", "_", "s", "i", "z", "e">>

K_score_home == <<"s", "c", "o", "r", "e", "_", "h", "o", "m", "e">>

K_league == <<"l", "e", "a", "g", "u", "e">>

ScorePrefix == <<"s", "c", "o", "r", "e", "_">>

\* (bool)$key : a string is false iff it is "" or "0"
BoolOfString(s) == ~(s = <<>> \/ s = <<"0">>)

\* the label `case (str_starts_with($key, 'score_')):` of a switch ($key):
\* the switch compares $key loosely with the boolean the label evaluates to
ScoreCase(key) == BoolOfString(key) = str_starts_with(key, ScorePrefix)

\* str_replace('score_', '', $key)
RECURSIVE StripScorePrefix(_)
StripScorePrefix(key) ==
    IF key = <<>> THEN <<>>
    ELSE IF str_starts_with(key, ScorePrefix)
         THEN StripScorePrefix(SubSeq(key, Len(ScorePrefix) + 1, Len(key)))
    ELSE <<Head(key)>> \o StripScorePrefix(Tail(key))

\* filter_var($value, FILTER_VALIDATE_BOOLEAN, FILTER_NULL_ON_FAILURE)
filter_validate_boolean(s) ==
    LET l == strtolower(s)
    IN  IF l \in {<<"1">>, <<"t", "r", "u", "e">>, <<"o", "n">>, <<"y", "e", "s">>}
        THEN "true"
        ELSE IF l \in {<<"0">>, <<"f", "a", "l", "s", "e">>, <<"o", "f", "f">>,
                       <<"n", "o">>, <<>>}
        THEN "false"
        ELSE "null"

(***************************************************************************)
(* Filter predicates (value is a PHP string here)                          *)
(***************************************************************************)
matchesTeam(match, value) ==
    IF ~IsSet(match.home_team) \/ ~IsSet(match.away_team) THEN FALSE
    ELSE \/ strcasecmpEq(match.home_team.s, value)
         \/ strcasecmpEq(match.away_team.s, value)

matchesHomeTeam(match, value) ==
    IsSet(match.home_team) /\ strcasecmpEq(match.home_team.s, value)

matchesAwayTeam(match, value) ==
    IsSet(match.away_team) /\ strcasecmpEq(match.away_team.s, value)

matchesDate(match, value) ==
    IF ~IsSet(match.date) THEN FALSE
    ELSE LET matchDate == NewDateTime(match.date.s)
             paramDate == NewDateTime(value)
         IN  IF ~matchDate.ok \/ ~paramDate.ok THEN FALSE
             ELSE matchDate.ts >= paramDate.ts

matchesScore(match, key, value) ==
    LET scoreType == StripScorePrefix(key)
    IN  IF ~IssetScore(match, scoreType) THEN FALSE
        ELSE StringCast(ScoreField(match, scoreType)) = value

\* variant: a missing score counts as 0 goals
matchesBothTeamsScored_missingAsZero(match, value) ==
    LET bothScored == ScoreInt(match.score.home) > 0 /\ ScoreInt(match.score.away) > 0
        expected == filter_validate_boolean(value)
    IN  IF expected = "null" THEN FALSE
        ELSE bothScored = (expected = "true")

matchesBothTeamsScored(match, value) ==
    IF ~IssetScore(match, <<"h", "o", "m", "e">>) \/ ~IssetScore(match, <<"a", "w", "a", "y">>)
    THEN FALSE
    ELSE LET bothScored == ScoreInt(match.score.home) > 0 /\ ScoreInt(match.score.away) > 0
             expected == filter_validate_boolean(value)
         IN  IF expected = "null" THEN FALSE
             ELSE bothScored = (expected = "true")

matchesDefault(match, key, value) ==
    /\ IsSet(TopField(match, key))
    /\ strcasecmpEq(StringCast(TopField(match, key)), value)

\* matchParameter(array $match, string $key, string $value): bool, called
\* from a strict_types file: "TypeError" when $value is not a string
matchParameter(match, key, value) ==
    IF value.t # "str" THEN "TypeError"
    ELSE LET r == CASE key = K_team -> matchesTeam(match, value.s)
                    [] key = K_home_team -> matchesHomeTeam(match, value.s)
                    [] key = K_away_team -> matchesAwayTeam(match, value.s)
                    [] key = K_date -> matchesDate(match, value.s)
                    [] OTHER ->
                         IF ScoreCase(key) THEN matchesScore(match, key, value.s)
                         ELSE IF key = K_both_teams_scored
                              THEN matchesBothTeamsScored(match, value.s)
                         ELSE matchesDefault(match, key, value.s)
         IN  IF r THEN "true" ELSE "false"

(***************************************************************************)
(* filterMatches.  A parameter mapping is a sequence of <<key, value>>     *)
(* pairs with distinct keys, in insertion order (a PHP array).             *)
(***************************************************************************)
\* the foreach over $params from entry i on, left at the first predicate that
\* is false; "TypeError" when a call raises before that
RECURSIVE ForeachParams(_, _, _)
ForeachParams(match, ps, i) ==
    IF i > Len(ps) THEN "true"
    ELSE LET r == matchParameter(match, ps[i][1], ps[i][2])
         IN  IF r = "TypeError" THEN "TypeError"
             ELSE IF r = "false" THEN "false"
             ELSE ForeachParams(match, ps, i + 1)

\* variant: the callback returns after the first entry of the foreach
KeepMatch_firstOnly(match, ps) ==
    IF ps = <<>> THEN "true" ELSE matchParameter(match, ps[1][1], ps[1][2])

\* variant: the callback keeps a record as soon as one predicate holds
KeepMatch_anyKey(match, ps) ==
    IF \E i \in 1..Len(ps) : matchParameter(match, ps[i][1], ps[i][2]) = "TypeError"
    THEN "TypeError"
    ELSE IF ps = <<>> \/ \E i \in 1..Len(ps) : matchParameter(match, ps[i][1], ps[i][2]) = "true"
    THEN "true"
    ELSE "false"

\* the callback of array_filter
KeepMatch(match, ps) == ForeachParams(match, ps, 1)

\* variant: an empty mapping selects nothing
filterMatches_emptySelectsNone(ms, ps) ==
    IF ps = <<>> THEN [ok |-> TRUE, out |-> <<>>]
    ELSE IF \E i \in 1..Len(ms) : KeepMatch(ms[i], ps) = "TypeError"
         THEN [ok |-> FALSE, out |-> <<>>]
    ELSE [ok |-> TRUE, out |-> SelectSeq(ms, LAMBDA m : KeepMatch(m, ps) = "true")]

\* variant: the values of the mapping are type-checked before any record is visited
filterMatches_typeCheckFirst(ms, ps) ==
    IF ps = <<>> THEN [ok |-> TRUE, out |-> ms]
    ELSE IF \E i \in 1..Len(ps) : ps[i][2].t # "str"
         THEN [ok |-> FALSE, out |-> <<>>]
    ELSE [ok |-> TRUE, out |-> SelectSeq(ms, LAMBDA m : KeepMatch(m, ps) = "true")]

\* [ok |-> FALSE] when the callback raised a TypeError for some record
filterMatches(ms, ps) ==
    IF ps = <<>> THEN [ok |-> TRUE, out |-> ms]
    ELSE IF \E i \in 1..Len(ms) : KeepMatch(ms[i], ps) = "TypeError"
         THEN [ok |-> FALSE, out |-> <<>>]
    ELSE [ok |-> TRUE, out |-> SelectSeq(ms, LAMBDA m : KeepMatch(m, ps) = "true")]

(***************************************************************************)
(* validateAndSanitizeParams                                               *)
(***************************************************************************)
BoolWords == {<<"t", "r", "u", "e">>, <<"f", "a", "l", "s", "e">>, <<"1">>, <<"0">>}

\* one iteration of the foreach: the entries (none or one) that the raw entry
\* <<key, value>> adds to $sanitizedParams
SanitizeEntry(key, value) ==
    IF value = <<>> THEN <<>>
    ELSE IF key = K_page \/ key = K_page_size
         THEN <<<<key, IF filter_validate_int(value) THEN IntV(IntCast(value)) ELSE Null>>>>
    ELSE IF key = K_date
         THEN (IF DateParses(value) THEN <<<<key, StrV(htmlspecialchars(value))>>>> ELSE <<>>)
    ELSE IF key = K_both_teams_scored
         THEN (IF strtolower(value) \in BoolWords
               THEN <<<<key, StrV(strtolower(value))>>>> ELSE <<>>)
    ELSE IF ScoreCase(key)
         THEN (IF is_numeric(value) THEN <<<<key, StrV(htmlspecialchars(value))>>>> ELSE <<>>)
    ELSE <<<<key, StrV(htmlspecialchars(value))>>>>

RECURSIVE validateAndSanitizeParams(_)
validateAndSanitizeParams(raw) ==
    IF raw = <<>> THEN <<>>
    ELSE SanitizeEntry(raw[1][1], raw[1][2]) \o validateAndSanitizeParams(Tail(raw))

\* array_key_exists($key, $ps)
HasKey(ps, key) == \E i \in 1..Len(ps) : ps[i][1] = key

\* $ps[$key] ?? null
Lookup(ps, key) ==
    IF HasKey(ps, key) THEN ps[CHOOSE i \in 1..Len(ps) : ps[i][1] = key][2]
    ELSE Null

(***************************************************************************)
(* Sorting: usort by date descending.  PHP 8 sorts stably; arrays of fewer *)
(* than 16 elements are sorted by insertion.                               *)
(***************************************************************************)
\* isset($a['date']) ? strtotime($a['date']) : 0
SortDate(match) ==
    IF IsSet(match.date) THEN strtotime(match.date.s) ELSE [ok |-> TRUE, ts |-> 0]

\* (bool) of an int|false
TruthOf(x) == x.ok /\ x.ts # 0

\* $x <=> $y for int|false operands: two ints compare as numbers, otherwise
\* both operands are compared as booleans
Spaceship(x, y) ==
    IF x.ok /\ y.ok
    THEN (IF x.ts < y.ts THEN -1 ELSE IF x.ts > y.ts THEN 1 ELSE 0)
    ELSE (IF TruthOf(x) = TruthOf(y) THEN 0 ELSE IF TruthOf(y) THEN -1 ELSE 1)

\* the comparison callback: $dateB <=> $dateA
DateCompare(a, b) == Spaceship(SortDate(b), SortDate(a))

RECURSIVE InsertSorted(_, _)
InsertSorted(sorted, x) ==
    IF sorted = <<>> THEN <<x>>
    ELSE IF DateCompare(sorted[Len(sorted)], x) > 0
         THEN Append(InsertSorted(SubSeq(sorted, 1, Len(sorted) - 1), x), sorted[Len(sorted)])
    ELSE Append(sorted, x)

RECURSIVE usortByDate(_)
usortByDate(ms) ==
    IF ms = <<>> THEN <<>>
    ELSE InsertSorted(usortByDate(SubSeq(ms, 1, Len(ms) - 1)), ms[Len(ms)])

(***************************************************************************)
(* Pagination                                                              *)
(***************************************************************************)
\* array_slice($a, $offset, $length) for $offset >= 0 and $length >= 0
array_slice(a, offset, length) ==
    SubSeq(a, offset + 1, Min(offset + length, Len(a)))

PageOf(ps) ==
    IF IsSet(Lookup(ps, K_page)) THEN Max(1, Lookup(ps, K_page).n) ELSE 1

PageSizeOf(ps) ==
    IF IsSet(Lookup(ps, K_page_size))
    THEN Min(Max(1, Lookup(ps, K_page_size).n), MAX_PAGE_SIZE)
    ELSE DEFAULT_PAGE_SIZE

\* variant: the slice is taken from $this->matches
PaginatedOf_unfiltered(filtered, all, ps) ==
    array_slice(all, (PageOf(ps) - 1) * PageSizeOf(ps), PageSizeOf(ps))

\* the slice taken for the `matches` key
PaginatedOf(filtered, all, ps) ==
    array_slice(filtered, (PageOf(ps) - 1) * PageSizeOf(ps), PageSizeOf(ps))

(***************************************************************************)
(* Team analysis and prediction                                            *)
(***************************************************************************)
\* round($num / $den, 2), in hundredths
Round2(num, den) == (200 * num + den) \div (2 * den)

\* variant: the reverse fixtures are left out of the team analysis
teamAnalysisMatches_exactOnly(filtered, homeTeam, awayTeam) ==
    SelectSeq(filtered, LAMBDA m :
        /\ IsSet(m.home_team) /\ IsSet(m.away_team)
        /\ strcasecmpEq(m.home_team.s, homeTeam) /\ strcasecmpEq(m.away_team.s, awayTeam))

\* the array_filter of processRequest: the pair in either orientation
teamAnalysisMatches(filtered, homeTeam, awayTeam) ==
    SelectSeq(filtered, LAMBDA m :
        /\ IsSet(m.home_team) /\ IsSet(m.away_team)
        /\ \/ strcasecmpEq(m.home_team.s, homeTeam) /\ strcasecmpEq(m.away_team.s, awayTeam)
           \/ strcasecmpEq(m.home_team.s, awayTeam) /\ strcasecmpEq(m.away_team.s, homeTeam))

\* the first array_filter of predictWinner: the exact orientation only
h2hMatches(ms, homeTeam, awayTeam) ==
    SelectSeq(ms, LAMBDA m :
        /\ IsSet(m.home_team) /\ IsSet(m.away_team)
        /\ strcasecmpEq(m.home_team.s, homeTeam)
        /\ strcasecmpEq(m.away_team.s, awayTeam))

\* isset($match['score']['home']) && isset($match['score']['away'])
ScoreIsset(m) == IssetScore(m, <<"h", "o", "m", "e">>) /\ IssetScore(m, <<"a", "w", "a", "y">>)

validMatches(ms) == SelectSeq(ms, ScoreIsset)

\* variant: a tie between the home wins and another tally is decided for home
predictWinner_homeOnTie(homeTeam, awayTeam, ms) ==
    IF Empty(StrV(homeTeam)) \/ Empty(StrV(awayTeam)) \/ ms = <<>>
    THEN [winner |-> "unknown", confidence |-> 0]
    ELSE LET valid == validMatches(h2hMatches(ms, homeTeam, awayTeam))
             home_wins == Len(SelectSeq(valid, LAMBDA m : ScoreInt(m.score.home) > ScoreInt(m.score.away)))
             away_wins == Len(SelectSeq(valid, LAMBDA m : ScoreInt(m.score.home) < ScoreInt(m.score.away)))
             draws == Len(SelectSeq(valid, LAMBDA m : ScoreInt(m.score.home) = ScoreInt(m.score.away)))
             totalMatches == Len(valid)
         IN  IF valid = <<>> THEN [winner |-> "unknown", confidence |-> 0]
             ELSE IF home_wins >= away_wins /\ home_wins >= draws
                  THEN [winner |-> "home", confidence |-> Round2(home_wins, totalMatches)]
             ELSE IF away_wins > home_wins /\ away_wins > draws
                  THEN [winner |-> "away", confidence |-> Round2(away_wins, totalMatches)]
             ELSE [winner |-> "draw", confidence |-> Round2(draws, totalMatches)]

predictWinner(homeTeam, awayTeam, ms) ==
    IF Empty(StrV(homeTeam)) \/ Empty(StrV(awayTeam)) \/ ms = <<>>
    THEN [winner |-> "unknown", confidence |-> 0]
    ELSE LET valid == validMatches(h2hMatches(ms, homeTeam, awayTeam))
             home_wins == Len(SelectSeq(valid, LAMBDA m : ScoreInt(m.score.home) > ScoreInt(m.score.away)))
             away_wins == Len(SelectSeq(valid, LAMBDA m : ScoreInt(m.score.home) < ScoreInt(m.score.away)))
             draws == Len(SelectSeq(valid, LAMBDA m : ScoreInt(m.score.home) = ScoreInt(m.score.away)))
             totalMatches == Len(valid)
         IN  IF valid = <<>> THEN [winner |-> "unknown", confidence |-> 0]
             ELSE IF home_wins > away_wins /\ home_wins > draws
                  THEN [winner |-> "home", confidence |-> Round2(home_wins, totalMatches)]
             ELSE IF away_wins > home_wins /\ away_wins > draws
                  THEN [winner |-> "away", confidence |-> Round2(away_wins, totalMatches)]
             ELSE [winner |-> "draw", confidence |-> Round2(draws, totalMatches)]

\* variant: the remaining probability is not divided between the two other outcomes
calculateWinProbability_noHalving(winnerPrediction, outcomeType) ==
    IF winnerPrediction.winner = "unknown" THEN Round2(1, 3)
    ELSE IF winnerPrediction.winner = outcomeType THEN winnerPrediction.confidence
    ELSE 100 - winnerPrediction.confidence

\* in hundredths: round(1/3, 2), the confidence, or round((1 - confidence) / 2, 2)
calculateWinProbability(winnerPrediction, outcomeType) ==
    IF winnerPrediction.winner = "unknown" THEN Round2(1, 3)
    ELSE IF winnerPrediction.winner = outcomeType THEN winnerPrediction.confidence
    ELSE Round2(100 - winnerPrediction.confidence, 200)

(***************************************************************************)
(* Statistics.  Percentages and averages are kept in hundredths, the two   *)
(* decimals that round(..., 2) leaves.                                     *)
(***************************************************************************)
\* characters that sort before "0"
CharsBeforeZero == {" ", "!", "\"", "#", "$", "%", "&", "'", "(", ")", "*", "+", ",", "-", ".", "/"}

\* $v > 0 for a score value (PHP 8): an integer or a numeric string is
\* compared as a number; any other string is compared with "0" as a string
GreaterThanZero(v) ==
    IF v.t = "int" THEN v.n > 0
    ELSE IF v.t # "str" THEN FALSE
    ELSE IF is_numeric(v.s)
         THEN v.s[1] # "-" /\ \E i \in 1..Len(v.s) : v.s[i] \in Digits \ {"0"}
    ELSE /\ v.s # <<>>
         /\ v.s[1] \notin CharsBeforeZero
         /\ (v.s[1] = "0" => Len(v.s) > 1)

\* isset($match['score'][$side]) ? (int)$match['score'][$side] : 0
GoalsOrZero(match, side) ==
    IF IssetScore(match, side) THEN ScoreInt(ScoreField(match, side)) ELSE 0

\* the array_reduce of calculateBothTeamsScoredPercentage
bothTeamsScoredCount(ms) ==
    Len(SelectSeq(ms, LAMBDA m :
        /\ ScoreIsset(m)
        /\ GreaterThanZero(m.score.home) /\ GreaterThanZero(m.score.away)))

\* variant: the records without a score pair are left out of the denominator
calculateBothTeamsScoredPercentage_validOnly(ms) ==
    IF validMatches(ms) = <<>> THEN 0
    ELSE Round2(100 * bothTeamsScoredCount(ms), Len(validMatches(ms)))

calculateBothTeamsScoredPercentage(ms) ==
    IF Len(ms) = 0 THEN 0
    ELSE Round2(100 * bothTeamsScoredCount(ms), Len(ms))

\* the sum of the goals of one side over the records
GoalsSum(ms, side) ==
    LET F[i \in 0..Len(ms)] ==
            IF i = 0 THEN 0 ELSE F[i - 1] + GoalsOrZero(ms[i], side)
    IN  F[Len(ms)]

calculateAverageGoals(ms) ==
    IF ms = <<>>
    THEN [average_total_goals |-> 0, average_home_goals |-> 0, average_away_goals |-> 0]
    ELSE LET home == GoalsSum(ms, <<"h", "o", "m", "e">>)
             away == GoalsSum(ms, <<"a", "w", "a", "y">>)
         IN  [average_total_goals |-> Round2(home + away, Len(ms)),
              average_home_goals |-> Round2(home, Len(ms)),
              average_away_goals |-> Round2(away, Len(ms))]

\* the default of the parameter $recentGames
RecentGames == 5

\* the records in which the team is home or away
TeamMatches(ms, team) ==
    SelectSeq(ms, LAMBDA m :
        \/ IsSet(m.home_team) /\ strcasecmpEq(m.home_team.s, team)
        \/ IsSet(m.away_team) /\ strcasecmpEq(m.away_team.s, team))

\* the points one record adds in the array_reduce of calculateFormIndex
FormPoints(m, team) ==
    IF ~IsSet(m.home_team) \/ ~IsSet(m.away_team) \/ ~ScoreIsset(m) THEN 0
    ELSE LET isHomeTeam == strcasecmpEq(m.home_team.s, team)
             homeScore == ScoreInt(m.score.home)
             awayScore == ScoreInt(m.score.away)
         IN  IF isHomeTeam
             THEN (IF homeScore > awayScore THEN 3 ELSE IF homeScore = awayScore THEN 1 ELSE 0)
             ELSE (IF awayScore > homeScore THEN 3 ELSE IF homeScore = awayScore THEN 1 ELSE 0)

calculateFormIndex(ms, team) ==
    IF Empty(StrV(team)) THEN 0
    ELSE LET teamMatches == TeamMatches(ms, team)
             recentMatches == SubSeq(teamMatches, 1, Min(Len(teamMatches), RecentGames))
             P[i \in 0..Len(recentMatches)] ==
                 IF i = 0 THEN 0 ELSE P[i - 1] + FormPoints(recentMatches[i], team)
             maxPossiblePoints == 3 * Len(recentMatches)
         IN  IF teamMatches = <<>> THEN 0
             ELSE IF maxPossiblePoints > 0
                  THEN Round2(100 * P[Len(recentMatches)], maxPossiblePoints)
             ELSE 0

NullHeadToHead ==
    [home_wins |-> 0, away_wins |-> 0, draws |-> 0, home_win_percentage |-> 0,
     away_win_percentage |-> 0, draw_percentage |-> 0]

calculateHeadToHeadStats(ms) ==
    LET valid == validMatches(ms)
        totalMatches == Len(valid)
        home_wins == Len(SelectSeq(valid, LAMBDA m : ScoreInt(m.score.home) > ScoreInt(m.score.away)))
        away_wins == Len(SelectSeq(valid, LAMBDA m : ScoreInt(m.score.home) < ScoreInt(m.score.away)))
        draws == Len(SelectSeq(valid, LAMBDA m : ScoreInt(m.score.home) = ScoreInt(m.score.away)))
    IN  IF ms = <<>> \/ totalMatches = 0 THEN NullHeadToHead
        ELSE [home_wins |-> home_wins, away_wins |-> away_wins, draws |-> draws,
              home_win_percentage |-> Round2(100 * home_wins, totalMatches),
              away_win_percentage |-> Round2(100 * away_wins, totalMatches),
              draw_percentage |-> Round2(100 * draws, totalMatches)]

\* the goals the record counts for the team in calculateExpectedGoals
TeamGoals(m, team) ==
    IF IsSet(m.home_team) /\ strcasecmpEq(m.home_team.s, team)
    THEN ScoreInt(m.score.home) ELSE ScoreInt(m.score.away)

calculateExpectedGoals(team, ms) ==
    IF Empty(StrV(team)) \/ ms = <<>> THEN 0
    ELSE LET valid == validMatches(TeamMatches(ms, team))
             G[i \in 0..Len(valid)] ==
                 IF i = 0 THEN 0 ELSE G[i - 1] + TeamGoals(valid[i], team)
         IN  IF valid = <<>> THEN 0 ELSE Round2(G[Len(valid)], Len(valid))

calculateBothTeamsToScoreProb(ms) ==
    LET valid == validMatches(ms)
        bothScoredCount == Len(SelectSeq(valid, LAMBDA m :
                               ScoreInt(m.score.home) > 0 /\ ScoreInt(m.score.away) > 0))
    IN  IF ms = <<>> \/ valid = <<>> THEN 0
        ELSE Round2(100 * bothScoredCount, Len(valid))

NullAnalysis ==
    [set |-> FALSE, home_team |-> <<>>, away_team |-> <<>>, matches_count |-> 0,
     both_teams_scored_percentage |-> 0,
     average_goals |-> [average_total_goals |-> 0, average_home_goals |-> 0,
                        average_away_goals |-> 0],
     home_form_index |-> 0, away_form_index |-> 0,
     head_to_head_stats |-> NullHeadToHead]

NullPrediction ==
    [set |-> FALSE, homeExpectedGoals |-> 0, awayExpectedGoals |-> 0,
     bothTeamsToScoreProb |-> 0, predictedWinner |-> "", confidence |-> 0,
     homeWinProb |-> 0, drawProb |-> 0, awayWinProb |-> 0]

\* $params['home_team'] ?? '' (the sanitizer stores strings under these keys)
TeamParam(ps, key) == IF IsSet(Lookup(ps, key)) THEN Lookup(ps, key).s ELSE <<>>

\* the condition of the team-analysis block
AnalysisWanted(ps) ==
    /\ ~Empty(StrV(TeamParam(ps, K_home_team)))
    /\ ~Empty(StrV(TeamParam(ps, K_away_team)))

TeamAnalysisOf(filtered, ps) ==
    LET homeTeam == TeamParam(ps, K_home_team)
        awayTeam == TeamParam(ps, K_away_team)
    IN  IF AnalysisWanted(ps)
        THEN LET subset == teamAnalysisMatches(filtered, homeTeam, awayTeam)
             IN  [set |-> TRUE, home_team |-> homeTeam, away_team |-> awayTeam,
                  matches_count |-> Len(subset),
                  both_teams_scored_percentage |-> calculateBothTeamsScoredPercentage(subset),
                  average_goals |-> calculateAverageGoals(subset),
                  home_form_index |-> calculateFormIndex(filtered, homeTeam),
                  away_form_index |-> calculateFormIndex(filtered, awayTeam),
                  head_to_head_stats |-> calculateHeadToHeadStats(subset)]
        ELSE NullAnalysis

PredictionOf(filtered, ps) ==
    LET homeTeam == TeamParam(ps, K_home_team)
        awayTeam == TeamParam(ps, K_away_team)
        w == predictWinner(homeTeam, awayTeam, filtered)
    IN  IF AnalysisWanted(ps)
        THEN [set |-> TRUE,
              homeExpectedGoals |-> calculateExpectedGoals(homeTeam, filtered),
              awayExpectedGoals |-> calculateExpectedGoals(awayTeam, filtered),
              bothTeamsToScoreProb |-> calculateBothTeamsToScoreProb(filtered),
              predictedWinner |-> w.winner, confidence |-> w.confidence,
              homeWinProb |-> calculateWinProbability(w, "home"),
              drawProb |-> calculateWinProbability(w, "draw"),
              awayWinProb |-> calculateWinProbability(w, "away")]
        ELSE NullPrediction

\* the names collected by the array_reduce of getAvailableTeams
RECURSIVE TeamNames(_)
TeamNames(ms) ==
    IF ms = <<>> THEN <<>>
    ELSE LET m == ms[Len(ms)]
         IN  TeamNames(SubSeq(ms, 1, Len(ms) - 1))
               \o (IF Empty(m.home_team) THEN <<>> ELSE <<m.home_team.s>>)
               \o (IF Empty(m.away_team) THEN <<>> ELSE <<m.away_team.s>>)

\* the foreach of getAvailableTeams: the first spelling of every lower-cased name
getAvailableTeams(ms) ==
    LET teams == TeamNames(ms)
        first == {i \in 1..Len(teams) :
                    \A j \in 1..(i - 1) : strtolower(teams[j]) # strtolower(teams[i])}
        F[i \in 0..Len(teams)] ==
            IF i = 0 THEN <<>>
            ELSE IF i \in first THEN Append(F[i - 1], teams[i]) ELSE F[i - 1]
    IN  F[Len(teams)]

(***************************************************************************)
(* The data source and loadMatches                                         *)
(***************************************************************************)
\* kinds of combined_matches.json:
\*   "missing"        is_file is false
\*   "unreadable"     file_get_contents returns false
\*   "malformed"      json_decode throws JsonException
\*   "no_matches_key" a JSON object without the key `matches`
\*   "top_scalar"     a JSON scalar at the top level
\*   "matches_scalar" `matches` holds a scalar
\*   "ok"             `matches` holds the list `data`
SourceOf(kind, data) == [kind |-> kind, data |-> data]

\* variant: a JsonException is swallowed and the dataset is left empty
loadMatches_swallowJsonError(src) ==
    CASE src.kind = "missing" ->
           [outcome |-> "RuntimeException", matches |-> <<>>, message |-> "JSON file not found"]
      [] src.kind = "unreadable" ->
           [outcome |-> "RuntimeException", matches |-> <<>>, message |-> "Failed to read JSON file"]
      [] src.kind = "matches_scalar" ->
           [outcome |-> "TypeError", matches |-> <<>>, message |-> "Cannot assign to property of type array"]
      [] src.kind = "ok" ->
           [outcome |-> "ok", matches |-> src.data, message |-> ""]
      [] OTHER ->
           [outcome |-> "ok", matches |-> <<>>, message |-> ""]

\* outcome "RuntimeException" is thrown by loadMatches itself; "TypeError"
\* is raised by the assignment to the typed property `array $matches`
loadMatches(src) ==
    CASE src.kind = "missing" ->
           [outcome |-> "RuntimeException", matches |-> <<>>, message |-> "JSON file not found"]
      [] src.kind = "unreadable" ->
           [outcome |-> "RuntimeException", matches |-> <<>>, message |-> "Failed to read JSON file"]
      [] src.kind = "malformed" ->
           [outcome |-> "RuntimeException", matches |-> <<>>, message |-> "Invalid JSON data"]
      [] src.kind = "matches_scalar" ->
           [outcome |-> "TypeError", matches |-> <<>>, message |-> "Cannot assign to property of type array"]
      [] src.kind = "ok" ->
           [outcome |-> "ok", matches |-> src.data, message |-> ""]
      [] OTHER ->
           [outcome |-> "ok", matches |-> <<>>, message |-> ""]

(***************************************************************************)
(* Responses                                                               *)
(***************************************************************************)
EnvelopeKeys ==
    {"total_matches", "page", "page_size", "matches", "team_analysis", "prediction", "teams"}

NoResponse ==
    [kind |-> "none", keys |-> {}, total_matches |-> 0, page |-> 0, page_size |-> 0,
     matches |-> <<>>, team_analysis |-> NullAnalysis, prediction |-> NullPrediction,
     teams |-> <<>>, error |-> ""]

\* the array returned at the end of the try block of processRequest
Envelope(total, p, size, slice, analysis, pred, all) ==
    [kind |-> "ok", keys |-> EnvelopeKeys, total_matches |-> total, page |-> p,
     page_size |-> size, matches |-> slice, team_analysis |-> analysis,
     prediction |-> pred, teams |-> getAvailableTeams(all), error |-> ""]

\* the JSON written by the catch block at the end of the script
ErrorResponse(message) ==
    [NoResponse EXCEPT !.kind = "error", !.keys = {"error", "trace"}, !.error = message]

\* an \Error is caught by no catch (\Exception ...) block: PHP ends the script
\* with "Fatal error: Uncaught TypeError" and writes no JSON
FatalResponse(message) ==
    [NoResponse EXCEPT !.kind = "fatal", !.error = message]

(***************************************************************************)
(* Inputs of the model                                                     *)
(***************************************************************************)
T_A == <<"A">>

T_a == <<"a">>

T_B == <<"B">>

T_0 == <<"0">>

D_Jan == <<"2", "0", "2", "4", "-", "0", "1", "-", "0", "1">>

D_Feb == <<"2", "0", "2", "4", "-", "0", "2", "-", "0", "1">>

D_Mar == <<"2", "0", "2", "4", "-", "0", "3", "-", "0", "1">>

\* the day of the request
D_Today == <<"2", "0", "2", "6", "-", "1", "1", "-", "0", "3">>

Records ==
    { Match(StrV(T_A), StrV(T_B), StrV(D_Jan), Score(IntV(2), IntV(1)), StrV(<<"x">>)),
      Match(StrV(T_B), StrV(T_a), StrV(D_Feb), Score(IntV(0), IntV(0)), Null),
      Match(StrV(T_a), StrV(T_B), StrV(D_Mar), Score(IntV(1), IntV(1)), Null),
      Match(StrV(T_A), Null, Null, Score(IntV(1), Null), Null),
      Match(StrV(T_0), StrV(T_B), StrV(D_Feb), NoScore, Null) }

SeqsUpTo(S, n) == UNION {[1..k -> S] : k \in 0..n}

Sources ==
    {SourceOf(k, <<>>) : k \in {"missing", "unreadable", "malformed", "no_matches_key",
                                "top_scalar", "matches_scalar"}}
      \cup {SourceOf("ok", d) : d \in SeqsUpTo(Records, MaxLen)}

ParamEntries ==
    { <<K_team, T_A>>, <<K_team, <<>> >>,
      <<K_home_team, T_a>>, <<K_home_team, T_0>>,
      <<K_away_team, T_B>>,
      <<K_date, D_Feb>>,
      <<K_both_teams_scored, <<"T", "R", "U", "E">> >>,
      <<K_score_home, <<"1">> >>,
      <<K_league, <<"X">> >>,
      <<K_page, <<"0">> >>, <<K_page, <<"2">> >>, <<K_page, <<"a", "b", "c">> >>,
      <<K_page_size, <<"1", "0", "0", "0">> >>, <<K_page_size, <<"1">> >> }

\* $_GET: an array, so no key occurs twice
RawParams ==
    {q \in SeqsUpTo(ParamEntries, MaxParams) :
        \A i, j \in 1..Len(q) : i # j => q[i][1] # q[j][1]}

(***************************************************************************)
(* The request, stage by stage                                             *)
(***************************************************************************)
Init ==
    /\ source \in Sources
    /\ get \in RawParams
    /\ now = DateDays(D_Today)
    /\ pc = "construct"
    /\ matches = <<>>
    /\ params = <<>>
    /\ filteredMatches = <<>>
    /\ page = 0
    /\ pageSize = 0
    /\ paginatedMatches = <<>>
    /\ teamAnalysis = NullAnalysis
    /\ prediction = NullPrediction
    /\ response = NoResponse
    /\ ran = {}

\* new FootballAPI(): the constructor runs loadMatches
Construct ==
    /\ pc = "construct"
    /\ LET r == loadMatches(source)
       IN  /\ matches' = r.matches
           /\ IF r.outcome = "ok"
              THEN pc' = "sanitize" /\ response' = response
              ELSE /\ pc' = "done"
                   /\ response' = IF r.outcome = "RuntimeException"
                                  THEN ErrorResponse(r.message)
                                  ELSE FatalResponse(r.message)
    /\ UNCHANGED <<source, get, now, params, filteredMatches, page, pageSize,
                   paginatedMatches, teamAnalysis, prediction, ran>>

Sanitize ==
    /\ pc = "sanitize"
    /\ params' = validateAndSanitizeParams(get)
    /\ ran' = ran \cup {"sanitize"}
    /\ pc' = "filter"
    /\ UNCHANGED <<source, get, now, matches, filteredMatches, page, pageSize,
                   paginatedMatches, teamAnalysis, prediction, response>>

Filter ==
    /\ pc = "filter"
    /\ ran' = ran \cup {"filter"}
    /\ LET r == filterMatches(matches, params)
       IN  /\ filteredMatches' = r.out
           /\ IF r.ok
              THEN pc' = "sort" /\ response' = response
              ELSE /\ pc' = "done"
                   /\ response' = FatalResponse("matchParameter(): Argument #3 must be of type string")
    /\ UNCHANGED <<source, get, now, matches, params, page, pageSize,
                   paginatedMatches, teamAnalysis, prediction>>

Sort ==
    /\ pc = "sort"
    /\ ran' = ran \cup {"sort"}
    /\ filteredMatches' = usortByDate(filteredMatches)
    /\ pc' = "paginate"
    /\ UNCHANGED <<source, get, now, matches, params, page, pageSize,
                   paginatedMatches, teamAnalysis, prediction, response>>

Paginate ==
    /\ pc = "paginate"
    /\ ran' = ran \cup {"paginate"}
    /\ page' = PageOf(params)
    /\ pageSize' = PageSizeOf(params)
    /\ paginatedMatches' = PaginatedOf(filteredMatches, matches, params)
    /\ pc' = "analysis"
    /\ UNCHANGED <<source, get, now, matches, params, filteredMatches,
                   teamAnalysis, prediction, response>>

Analyse ==
    /\ pc = "analysis"
    /\ ran' = ran \cup {"analysis"}
    /\ teamAnalysis' = TeamAnalysisOf(filteredMatches, params)
    /\ prediction' = PredictionOf(filteredMatches, params)
    /\ pc' = "assemble"
    /\ UNCHANGED <<source, get, now, matches, params, filteredMatches, page, pageSize,
                   paginatedMatches, response>>

Assemble ==
    /\ pc = "assemble"
    /\ ran' = ran \cup {"assemble"}
    /\ response' = Envelope(Len(filteredMatches), page, pageSize, paginatedMatches,
                            teamAnalysis, prediction, matches)
    /\ pc' = "done"
    /\ UNCHANGED <<source, get, now, matches, params, filteredMatches, page, pageSize,
                   paginatedMatches, teamAnalysis, prediction>>

Next ==
    \/ Construct
    \/ Sanitize
    \/ Filter
    \/ Sort
    \/ Paginate
    \/ Analyse
    \/ Assemble

Spec == Init /\ [][Next]_vars

(***************************************************************************)
(* Properties                                                              *)
(***************************************************************************)
Range(f) == {f[i] : i \in DOMAIN f}

\* number of occurrences of x in the sequence q
Occurrences(q, x) == Cardinality({i \in 1..Len(q) : q[i] = x})

\* the dataset was loaded
Loaded == source.kind \in {"ok", "no_matches_key", "top_scalar"}

\* filterMatches has returned
FilterReturned == "filter" \in ran /\ response.kind # "fatal"

\* the record passes the predicate of every entry of the mapping
SatisfiesAll(m, ps) ==
    \A i \in 1..Len(ps) : matchParameter(m, ps[i][1], ps[i][2]) = "true"

\* C1: once filterMatches has returned, every record of the dataset occurs in
\* the filtered set as often as in the dataset if it satisfies the predicate
\* of every key of the sanitized mapping, and not at all otherwise; right
\* after filtering the kept records are in dataset order.
C1_FilterIsConjunction ==
    FilterReturned =>
        /\ \A m \in Range(matches) :
              Occurrences(filteredMatches, m) =
                 IF SatisfiesAll(m, params) THEN Occurrences(matches, m) ELSE 0
        /\ Range(filteredMatches) \subseteq Range(matches)
        /\ pc = "sort" =>
              filteredMatches = SelectSeq(matches, LAMBDA m : SatisfiesAll(m, params))

\* a mapping of two entries or more under which one record is kept and another,
\* which passes the first entry, is dropped by a later one
C1_Witness ==
    /\ pc = "sort"
    /\ Len(params) >= 2
    /\ \E m \in Range(matches) : m \in Range(filteredMatches)
    /\ \E m \in Range(matches) :
          /\ m \notin Range(filteredMatches)
          /\ matchParameter(m, params[1][1], params[1][2]) = "true"

\* the raw value of $_GET[$key], <<>> when the key is absent
RawValue(q, key) ==
    IF HasKey(q, key) THEN q[CHOOSE i \in 1..Len(q) : q[i][1] = key][2] ELSE <<>>

\* the raw value is absent or an integer numeral
AbsentOrInt(q, key) == HasKey(q, key) => filter_validate_int(RawValue(q, key))

\* the mapping without the entries of `page` and `page_size`
WithoutPaging(ps) == SelectSeq(ps, LAMBDA e : e[1] # K_page /\ e[1] # K_page_size)

\* C2: every request on a loaded dataset whose page and page_size are absent
\* or integers ends in a result envelope whose page is max(1, parsed page)
\* (1 when absent) and whose page_size is the parsed page_size clamped into
\* [1, 500] (100 when absent).
C2_PageAndPageSizeClamped ==
    (pc = "done" /\ Loaded /\ AbsentOrInt(get, K_page) /\ AbsentOrInt(get, K_page_size)) =>
        /\ response.kind = "ok"
        /\ response.page =
              IF HasKey(get, K_page) THEN Max(1, IntCast(RawValue(get, K_page))) ELSE 1
        /\ response.page_size =
              IF HasKey(get, K_page_size)
              THEN Min(Max(1, IntCast(RawValue(get, K_page_size))), 500)
              ELSE 100

\* C3: in every finished request that carries an integer page or page_size,
\* total_matches is the number of records that satisfy the other parameters
\* and matches is the slice [(page-1)*page_size, (page-1)*page_size+page_size)
\* of the date-descending sequence of those records.
C3_PagingIsNotAFilter ==
    (/\ pc = "done" /\ Loaded
     /\ HasKey(get, K_page) \/ HasKey(get, K_page_size)
     /\ AbsentOrInt(get, K_page) /\ AbsentOrInt(get, K_page_size)) =>
        LET others == WithoutPaging(params)
            kept == SelectSeq(matches, LAMBDA m : SatisfiesAll(m, others))
            sorted == usortByDate(kept)
            p == IF HasKey(get, K_page) THEN Max(1, IntCast(RawValue(get, K_page))) ELSE 1
            size == IF HasKey(get, K_page_size)
                    THEN Min(Max(1, IntCast(RawValue(get, K_page_size))), 500)
                    ELSE 100
        IN  /\ response.kind = "ok"
            /\ response.total_matches = Len(kept)
            /\ response.matches = array_slice(sorted, (p - 1) * size, size)

C5_MalformedPagingDropped ==
    \A key \in {K_page, K_page_size} :
        (/\ "sanitize" \in ran /\ Loaded
         /\ HasKey(get, key) /\ ~filter_validate_int(RawValue(get, key))
         /\ ~HasKey(get, IF key = K_page THEN K_page_size ELSE K_page)) =>
            /\ ~HasKey(params, key)
            /\ pc = "done" =>
                  /\ response.kind = "ok"
                  /\ response.page = 1
                  /\ response.page_size = 100
                  /\ response.total_matches =
                        Len(SelectSeq(matches, LAMBDA m : SatisfiesAll(m, WithoutPaging(params))))

\* C6: when the dataset cannot be located, read or parsed, the request ends
\* right after the constructor in an error response that carries a message
\* and no envelope key; no stage of processRequest has run and nothing has
\* been computed.
C6_LoadFailureAborts ==
    (source.kind \in {"missing", "unreadable", "malformed"} /\ pc # "construct") =>
        /\ pc = "done"
        /\ response.kind = "error"
        /\ response.error # ""
        /\ "error" \in response.keys
        /\ response.keys \cap EnvelopeKeys = {}
        /\ ran = {}
        /\ params = <<>> /\ filteredMatches = <<>> /\ paginatedMatches = <<>>
        /\ ~teamAnalysis.set /\ ~prediction.set

\* a finished request on a source that is not well-formed JSON
C6_Witness ==
    /\ pc = "done"
    /\ source.kind = "malformed"
    /\ response.kind = "error"
    /\ get # <<>>

\* C7: a request that has entered processRequest ends in an envelope or in
\* an error response: no failure raised by a stage is left uncaught.
C7_EveryFailureCaught ==
    (pc = "done" /\ ran # {}) => response.kind \in {"ok", "error"}

\* C8: every envelope has the seven keys, and team_analysis and prediction
\* are non-null exactly when the sanitized mapping has both home_team and
\* away_team.
C8_AnalysisIffBothTeams ==
    response.kind = "ok" =>
        /\ response.keys = EnvelopeKeys
        /\ response.team_analysis.set <=> (HasKey(params, K_home_team) /\ HasKey(params, K_away_team))
        /\ response.prediction.set <=> (HasKey(params, K_home_team) /\ HasKey(params, K_away_team))

\* the sanitized entries a mapping can be extended with
SanitizedEntries ==
    UNION {Range(SanitizeEntry(e[1], e[2])) : e \in ParamEntries}

\* the mapping ps with the entry e inserted after position k
InsertAt(ps, k, e) == SubSeq(ps, 1, k) \o <<e>> \o SubSeq(ps, k + 1, Len(ps))

\* C9: for every entry with a key that the sanitized mapping lacks, inserted
\* at any position, the records that filterMatches returns for the extended
\* mapping are among the records it returned for the mapping itself.
C9_FilterMonotonic ==
    pc = "sort" =>
        \A e \in SanitizedEntries : \A k \in 0..Len(params) :
            LET r == filterMatches(matches, InsertAt(params, k, e))
            IN  (~HasKey(params, e[1]) /\ r.ok) =>
                    \A m \in Range(matches) :
                        Occurrences(r.out, m) <= Occurrences(filteredMatches, m)

\* a non-empty mapping that kept two records, one of which an additional
\* key removes
C9_Witness ==
    /\ pc = "sort"
    /\ params # <<>>
    /\ Len(filteredMatches) >= 2
    /\ \E e \in SanitizedEntries :
          LET r == filterMatches(matches, Append(params, e))
          IN  ~HasKey(params, e[1]) /\ r.ok /\ Len(r.out) = 1

\* C10: with an empty sanitized mapping filterMatches returns the dataset
\* itself: the same records in the same order.
C10_EmptyMappingIsIdentity ==
    (pc = "sort" /\ params = <<>>) => filteredMatches = matches

\* two different records filtered with an empty mapping
C10_Witness ==
    /\ pc = "sort"
    /\ params = <<>>
    /\ Len(matches) >= 2
    /\ matches[1] # matches[2]
    /\ filteredMatches = matches

\* the only entry of a mapping that holds exactly the key `key`
OnlyParam(ps, key) == Len(ps) = 1 /\ ps[1][1] = key /\ ps[1][2].t = "str"

\* C11: with the single parameter team=T a record is kept iff T equals its
\* home_team or its away_team case-insensitively, whatever the other side
\* holds; with home_team=T only the home_team decides and with away_team=T
\* only the away_team.
C11_TeamPredicates ==
    pc = "sort" =>
        \A m \in Range(matches) :
            /\ OnlyParam(params, K_team) =>
                  ((m \in Range(filteredMatches)) <=>
                     \/ IsSet(m.home_team) /\ strcasecmpEq(m.home_team.s, params[1][2].s)
                     \/ IsSet(m.away_team) /\ strcasecmpEq(m.away_team.s, params[1][2].s))
            /\ OnlyParam(params, K_home_team) =>
                  ((m \in Range(filteredMatches)) <=>
                     (IsSet(m.home_team) /\ strcasecmpEq(m.home_team.s, params[1][2].s)))
            /\ OnlyParam(params, K_away_team) =>
                  ((m \in Range(filteredMatches)) <=>
                     (IsSet(m.away_team) /\ strcasecmpEq(m.away_team.s, params[1][2].s)))

(***************************************************************************)
(* Requests with at most one filter parameter on records with and without  *)
(* usable dates and scores                                                 *)
(***************************************************************************)
D_1960 == <<"1", "9", "6", "0", "-", "0", "1", "-", "0", "1">>

\* a date string no parser accepts
D_Bad == <<"x">>

K_score_away == <<"s", "c", "o", "r", "e", "_", "a", "w", "a", "y">>

K_score_score_home ==
    <<"s", "c", "o", "r", "e", "_", "s", "c", "o", "r", "e", "_", "h", "o", "m", "e">>

K_venue == <<"v", "e", "n", "u", "e">>

FilterRecords ==
    { Match(StrV(T_A), StrV(T_B), StrV(D_Feb), Score(IntV(2), IntV(1)), StrV(<<"x">>)),
      Match(StrV(T_A), StrV(T_B), StrV(D_Jan), Score(IntV(0), IntV(0)), Null),
      Match(StrV(T_B), StrV(T_A), StrV(D_Mar), Score(IntV(0), IntV(3)), StrV(<<"y">>)),
      Match(StrV(T_A), StrV(T_B), Null, Score(IntV(1), Null), Null),
      Match(StrV(T_A), StrV(T_B), StrV(D_Bad), NoScore, Null),
      Match(StrV(T_A), StrV(T_B), StrV(<<>>), Score(IntV(1), IntV(1)), Null),
      Match(StrV(T_A), StrV(T_B), StrV(D_1960), Score(IntV(1), IntV(0)), Null) }

FilterEntries ==
    { <<K_date, D_Feb>>, <<K_date, D_Bad>>,
      <<K_both_teams_scored, <<"T", "r", "u", "e">> >>,
      <<K_both_teams_scored, <<"f", "a", "l", "s", "e">> >>,
      <<K_both_teams_scored, <<"1">> >>,
      <<K_both_teams_scored, <<"0">> >>,
      <<K_both_teams_scored, <<"n", "o">> >>,
      <<K_score_home, <<"1">> >>,
      <<K_score_away, <<"0">> >>,
      <<K_score_score_home, <<"1">> >>,
      <<K_league, <<"X">> >>,
      <<K_venue, <<"x">> >> }

InitFilter ==
    /\ source \in {SourceOf("ok", d) : d \in SeqsUpTo(FilterRecords, MaxLen)}
    /\ get \in SeqsUpTo(FilterEntries, 1)
    /\ now \in {DateDays(D_Jan), DateDays(D_Today)}
    /\ pc = "construct"
    /\ matches = <<>>
    /\ params = <<>>
    /\ filteredMatches = <<>>
    /\ page = 0
    /\ pageSize = 0
    /\ paginatedMatches = <<>>
    /\ teamAnalysis = NullAnalysis
    /\ prediction = NullPrediction
    /\ response = NoResponse
    /\ ran = {}

SpecFilter == InitFilter /\ [][Next]_vars

\* the date of the record is a calendar date
HasParsableDate(m) == IsSet(m.date) /\ DateParses(m.date.s)

\* C12: with the single parameter date=D a record is kept iff its date is a
\* calendar date on or after D; a record whose date is missing or is not a
\* date is dropped.
C12_DateIsLowerBound ==
    (pc = "sort" /\ OnlyParam(params, K_date)) =>
        \A m \in Range(matches) :
            (m \in Range(filteredMatches)) <=>
                (HasParsableDate(m) /\ DateDays(m.date.s) >= DateDays(params[1][2].s))

\* the record has integer goals for both sides
HasScorePair(m) == m.score.set /\ m.score.home.t = "int" /\ m.score.away.t = "int"

AssignedPredicate(m, key, value) ==
    IF str_starts_with(key, ScorePrefix)
    THEN LET field == SubSeq(key, Len(ScorePrefix) + 1, Len(key))
         IN  IssetScore(m, field) /\ StringCast(ScoreField(m, field)) = value
    ELSE IF key = K_team THEN matchesTeam(m, value)
    ELSE IF key = K_home_team THEN matchesHomeTeam(m, value)
    ELSE IF key = K_away_team THEN matchesAwayTeam(m, value)
    ELSE IF key = K_date THEN matchesDate(m, value)
    ELSE IF key = K_both_teams_scored THEN matchesBothTeamsScored(m, value)
    ELSE IsSet(TopField(m, key)) /\ strcasecmpEq(StringCast(TopField(m, key)), value)

\* C14: with a single string-valued parameter a record is kept iff it passes
\* the predicate assigned to the key: the score predicate on score[field] for
\* a key score_<field>, the key's own predicate for team, home_team,
\* away_team, date and both_teams_scored, and the default predicate for any
\* other key.
C14_DispatchByKey ==
    (pc = "sort" /\ Len(params) = 1 /\ params[1][2].t = "str") =>
        \A m \in Range(matches) :
            (m \in Range(filteredMatches)) <=>
                AssignedPredicate(m, params[1][1], params[1][2].s)

\* usort has returned
Sorted == "sort" \in ran

\* C15: in the sorted filtered sequence a record with a calendar date never
\* comes after a record with an earlier calendar date, nor after a record
\* whose date is missing or is not a date.
C15_DateDescending ==
    Sorted =>
        \A i, j \in 1..Len(filteredMatches) :
            (i < j /\ HasParsableDate(filteredMatches[j])) =>
                /\ HasParsableDate(filteredMatches[i])
                /\ DateDays(filteredMatches[i].date.s) >= DateDays(filteredMatches[j].date.s)

(***************************************************************************)
(* Requests about one pair of teams                                        *)
(***************************************************************************)
MaxPairLen == 3

PairRecords ==
    { Match(StrV(T_A), StrV(T_B), StrV(D_Jan), Score(IntV(2), IntV(1)), Null),
      Match(StrV(T_B), StrV(T_A), StrV(D_Feb), Score(IntV(0), IntV(0)), Null),
      Match(StrV(T_A), StrV(T_B), StrV(D_Mar), Score(IntV(1), IntV(1)), Null),
      Match(StrV(T_A), StrV(T_B), StrV(D_Feb), Score(IntV(0), IntV(3)), Null),
      Match(StrV(T_0), StrV(T_B), StrV(D_Jan), Score(IntV(1), IntV(0)), Null) }

PairParams ==
    { <<>>,
      << <<K_home_team, T_A>>, <<K_away_team, T_B>> >>,
      << <<K_home_team, T_B>>, <<K_away_team, T_a>> >>,
      << <<K_home_team, T_0>>, <<K_away_team, T_B>> >>,
      << <<K_team, T_A>> >> }

InitPair ==
    /\ source \in {SourceOf("ok", d) : d \in SeqsUpTo(PairRecords, MaxPairLen)}
    /\ get \in PairParams
    /\ now = DateDays(D_Today)
    /\ pc = "construct"
    /\ matches = <<>>
    /\ params = <<>>
    /\ filteredMatches = <<>>
    /\ page = 0
    /\ pageSize = 0
    /\ paginatedMatches = <<>>
    /\ teamAnalysis = NullAnalysis
    /\ prediction = NullPrediction
    /\ response = NoResponse
    /\ ran = {}

SpecPair == InitPair /\ [][Next]_vars

\* team names a caller can pass
PairNames == {<<>>, T_0, T_A, T_a, T_B}

\* the record names both teams, in this orientation, letter case ignored
PairIs(m, homeTeam, awayTeam) ==
    /\ IsSet(m.home_team) /\ IsSet(m.away_team)
    /\ strtolower(m.home_team.s) = strtolower(homeTeam)
    /\ strtolower(m.away_team.s) = strtolower(awayTeam)

\* sub is the sequence ms restricted to the positions in idx, order kept
IsRestriction(sub, ms, idx) ==
    /\ Len(sub) = Cardinality(idx)
    /\ \A k \in 1..Len(sub) :
          \E i \in idx :
             /\ sub[k] = ms[i]
             /\ Cardinality({j \in idx : j < i}) = k - 1

\* the request of the example: home_team=A&away_team=B on the three fixtures
ExampleRequest ==
    /\ source.data = << Match(StrV(T_A), StrV(T_B), StrV(D_Jan), Score(IntV(2), IntV(1)), Null),
                        Match(StrV(T_B), StrV(T_A), StrV(D_Feb), Score(IntV(0), IntV(0)), Null),
                        Match(StrV(T_A), StrV(T_B), StrV(D_Mar), Score(IntV(1), IntV(1)), Null) >>
    /\ get = << <<K_home_team, T_A>>, <<K_away_team, T_B>> >>

\* C16: the team-analysis subset is the records naming the requested pair in
\* either orientation, the head-to-head subset of the prediction is the
\* records naming it in the requested orientation only; in the example
\* request matches_count is 2 and the head-to-head subset is the two records
\* with A at home and B away.
C16_PairSubsets ==
    /\ \A h \in PairNames, a \in PairNames :
          /\ IsRestriction(teamAnalysisMatches(matches, h, a), matches,
                           {i \in 1..Len(matches) :
                               PairIs(matches[i], h, a) \/ PairIs(matches[i], a, h)})
          /\ IsRestriction(h2hMatches(matches, h, a), matches,
                           {i \in 1..Len(matches) : PairIs(matches[i], h, a)})
    /\ ("analysis" \in ran /\ teamAnalysis.set) =>
          teamAnalysis.matches_count =
             Cardinality({i \in 1..Len(filteredMatches) :
                \/ PairIs(filteredMatches[i], teamAnalysis.home_team, teamAnalysis.away_team)
                \/ PairIs(filteredMatches[i], teamAnalysis.away_team, teamAnalysis.home_team)})
    /\ (ExampleRequest /\ pc = "done") =>
          /\ response.kind = "ok"
          /\ response.team_analysis.set
          /\ response.team_analysis.matches_count = 2
          /\ h2hMatches(filteredMatches, T_A, T_B) =
                << Match(StrV(T_A), StrV(T_B), StrV(D_Mar), Score(IntV(1), IntV(1)), Null),
                   Match(StrV(T_A), StrV(T_B), StrV(D_Jan), Score(IntV(2), IntV(1)), Null) >>

C16_Witness ==
    /\ ExampleRequest
    /\ pc = "done"
    /\ response.team_analysis.matches_count = 2
    /\ Len(teamAnalysisMatches(matches, T_A, T_B)) = 3
    /\ Len(h2hMatches(matches, T_A, T_B)) = 2

\* the set holds a record of the fixture homeTeam vs awayTeam with goals for both sides
HasValidFixture(ms, homeTeam, awayTeam) ==
    \E i \in 1..Len(ms) : PairIs(ms[i], homeTeam, awayTeam) /\ HasScorePair(ms[i])

\* C17: for every pair of names and every record set predictWinner returns a
\* winner among home, away, draw, unknown and a confidence between 0 and 1,
\* and the winner is unknown (confidence 0) exactly when a name is the empty
\* string, the set is empty or the set holds no record of the requested
\* fixture with goals for both sides.
C17_PredictWinnerTotal ==
    \A h \in PairNames, a \in PairNames :
       LET w == predictWinner(h, a, matches)
       IN  /\ w.winner \in {"home", "away", "draw", "unknown"}
           /\ w.confidence \in 0..100
           /\ (w.winner = "unknown") =>  w.confidence = 0
           /\ (w.winner = "unknown") <=>
                 (h = <<>> \/ a = <<>> \/ matches = <<>> \/ ~HasValidFixture(matches, h, a))

Outcomes == {"home", "draw", "away"}

\* p is half of rest rounded to a whole number (all in hundredths)
IsRoundedHalf(p, rest) == 2 * p - rest \in {-1, 0, 1}

\* C18: for every prediction predictWinner returns, the win probabilities
\* of home, draw and away sum to a value within 0.01 of 1.0; with winner
\* unknown every outcome gets 0.33, otherwise the predicted outcome gets the
\* confidence and each other outcome gets (1 - confidence) / 2 rounded to 2
\* decimals. The same holds for the three elo values of a response.
C18_WinProbabilities ==
    /\ \A h \in PairNames, a \in PairNames :
          LET w == predictWinner(h, a, matches)
              p == [o \in Outcomes |-> calculateWinProbability(w, o)]
          IN  /\ p["home"] + p["draw"] + p["away"] \in 99..101
              /\ (w.winner = "unknown") => \A o \in Outcomes : p[o] = 33
              /\ (w.winner # "unknown") =>
                    \A o \in Outcomes :
                       IF o = w.winner THEN p[o] = w.confidence
                       ELSE IsRoundedHalf(p[o], 100 - w.confidence)
    /\ prediction.set =>
          /\ prediction.homeWinProb + prediction.drawProb + prediction.awayWinProb \in 99..101
          /\ (prediction.predictedWinner = "home") => prediction.homeWinProb = prediction.confidence
          /\ (prediction.predictedWinner = "draw") => prediction.drawProb = prediction.confidence
          /\ (prediction.predictedWinner = "away") => prediction.awayWinProb = prediction.confidence

\* one home win, one draw and one away win: draw with confidence 0.33, and
\* 0.34 for each of the other outcomes
C18_Witness ==
    /\ pc = "done"
    /\ response.kind = "ok"
    /\ response.prediction.set
    /\ response.prediction.predictedWinner = "draw"
    /\ response.prediction.confidence = 33
    /\ response.prediction.homeWinProb = 34
    /\ response.prediction.awayWinProb = 34

\* every team name of the dataset, record by record, home before away
RECURSIVE NamesInOrder(_)
NamesInOrder(ms) ==
    IF ms = <<>> THEN <<>>
    ELSE LET m == ms[Len(ms)]
         IN  NamesInOrder(SubSeq(ms, 1, Len(ms) - 1))
               \o (IF IsSet(m.home_team) THEN <<m.home_team.s>> ELSE <<>>)
               \o (IF IsSet(m.away_team) THEN <<m.away_team.s>> ELSE <<>>)

\* position i holds the first spelling of its name
FirstOccurrence(names, i) ==
    \A j \in 1..(i - 1) : strtolower(names[j]) # strtolower(names[i])

\* C19: the `teams` of a response is computed from the whole loaded dataset,
\* whatever the parameters: each name that occurs as a home or away team,
\* once under case-insensitive comparison, in the spelling and the order of
\* its first occurrence.
C19_TeamsOfWholeDataset ==
    (response.kind = "ok") =>
        LET names == NamesInOrder(matches)
        IN  IsRestriction(response.teams, names,
                          {i \in 1..Len(names) : FirstOccurrence(names, i)})

\* C20: a well-formed source without the key `matches` loads as the empty
\* dataset and the request is served; a source that parses but whose top
\* level is not a key-value object, or whose `matches` is not a sequence of
\* records, makes the load fail with a request failure.
C20_InvalidStructureFails ==
    /\ (source.kind = "no_matches_key" /\ pc # "construct") =>
          (matches = <<>> /\ response.kind \notin {"error", "fatal"})
    /\ (source.kind \in {"top_scalar", "matches_scalar"} /\ pc # "construct") =>
          (pc = "done" /\ response.kind = "error")

\* the source holds a dataset without records
EmptyDataset ==
    \/ source.kind = "no_matches_key"
    \/ source.kind = "ok" /\ source.data = <<>>

MaxStatsLen == 3

\* a record with goals for the home side only
HalfScored == Match(StrV(T_A), StrV(T_B), StrV(D_Jan), Score(IntV(1), Null), Null)

\* a record whose home goals are not a number
Malformed == Match(StrV(T_A), StrV(T_B), StrV(D_Feb), Score(StrV(<<"x">>), IntV(2)), Null)

StatsRecords ==
    { Match(StrV(T_A), StrV(T_B), StrV(D_Jan), Score(IntV(2), IntV(1)), Null),
      Match(StrV(T_A), StrV(T_B), StrV(D_Feb), Score(IntV(1), IntV(1)), Null),
      Match(StrV(T_A), StrV(T_B), StrV(D_Mar), Score(IntV(0), IntV(3)), Null),
      Match(StrV(T_B), StrV(T_A), StrV(D_Mar), Score(IntV(1), IntV(0)), Null),
      HalfScored,
      Malformed }

StatsParams ==
    { <<>>,
      << <<K_home_team, T_A>>, <<K_away_team, T_B>> >>,
      << <<K_home_team, T_a>>, <<K_away_team, T_B>>, <<K_date, D_Feb>> >> }

InitStats ==
    /\ source \in {SourceOf("ok", d) : d \in SeqsUpTo(StatsRecords, MaxStatsLen)}
    /\ get \in StatsParams
    /\ now = DateDays(D_Today)
    /\ pc = "construct"
    /\ matches = <<>>
    /\ params = <<>>
    /\ filteredMatches = <<>>
    /\ page = 0
    /\ pageSize = 0
    /\ paginatedMatches = <<>>
    /\ teamAnalysis = NullAnalysis
    /\ prediction = NullPrediction
    /\ response = NoResponse
    /\ ran = {}

SpecStats == InitStats /\ [][Next]_vars

\* r is num / den rounded to 2 decimals, in hundredths
IsRounded(r, num, den) == den > 0 /\ 2 * (r * den - 100 * num) \in (0 - den)..den

\* every goal count present in the set is an integer
IntegerScores(ms) ==
    \A i \in 1..Len(ms) :
        /\ ms[i].score.home.t \in {"int", "null"}
        /\ ms[i].score.away.t \in {"int", "null"}

\* the goals of one side, 0 when absent
IntGoals(v) == IF v.t = "int" THEN v.n ELSE 0

\* the sum of f over the positions 1..n
SumOver(f, n) ==
    LET S[i \in 0..n] == IF i = 0 THEN 0 ELSE S[i - 1] + f[i]
    IN  S[n]

\* the head-to-head tallies count exactly the records with both goal counts
TalliesOverFull(h, ms) ==
    LET full == {i \in 1..Len(ms) : HasScorePair(ms[i])}
    IN  /\ h.home_wins = Cardinality({i \in full : ms[i].score.home.n > ms[i].score.away.n})
        /\ h.away_wins = Cardinality({i \in full : ms[i].score.home.n < ms[i].score.away.n})
        /\ h.draws = Cardinality({i \in full : ms[i].score.home.n = ms[i].score.away.n})
        /\ IF full = {} THEN h = NullHeadToHead
           ELSE /\ IsRounded(h.home_win_percentage, 100 * h.home_wins, Cardinality(full))
                /\ IsRounded(h.away_win_percentage, 100 * h.away_wins, Cardinality(full))
                /\ IsRounded(h.draw_percentage, 100 * h.draws, Cardinality(full))

\* the percentage and the averages are taken over every record of the set
AveragesOverAll(ms) ==
    LET n == Len(ms)
        both == Cardinality({i \in 1..n : HasScorePair(ms[i]) /\ ms[i].score.home.n > 0
                                            /\ ms[i].score.away.n > 0})
        home == SumOver([i \in 1..n |-> IntGoals(ms[i].score.home)], n)
        away == SumOver([i \in 1..n |-> IntGoals(ms[i].score.away)], n)
        avg == calculateAverageGoals(ms)
    IN  IF n = 0
        THEN /\ calculateBothTeamsScoredPercentage(ms) = 0
             /\ avg.average_total_goals = 0 /\ avg.average_home_goals = 0
             /\ avg.average_away_goals = 0
        ELSE /\ IsRounded(calculateBothTeamsScoredPercentage(ms), 100 * both, n)
             /\ IsRounded(avg.average_total_goals, home + away, n)
             /\ IsRounded(avg.average_home_goals, home, n)
             /\ IsRounded(avg.average_away_goals, away, n)

\* C22: a record with score.home present and score.away absent is left out of
\* the tallies and the denominator of headToHeadStats, but is counted in the
\* denominator of bothTeamsScoredPercentage and of averageGoals, its missing
\* goals counting as 0; on the empty set both return zeros.  Stated for the
\* dataset, the filtered set and the empty set, when the goal counts present
\* are integers.
C22_HalfScoredRecord ==
    /\ AveragesOverAll(<<>>)
    /\ \A ms \in {matches, filteredMatches} :
          IntegerScores(ms) =>
             /\ TalliesOverFull(calculateHeadToHeadStats(ms), ms)
             /\ AveragesOverAll(ms)
    /\ (response.kind = "ok" /\ response.team_analysis.set /\ IntegerScores(filteredMatches)) =>
          /\ TalliesOverFull(response.team_analysis.head_to_head_stats, filteredMatches)
          /\ IF filteredMatches = <<>>
             THEN response.team_analysis.both_teams_scored_percentage = 0
             ELSE IsRounded(response.team_analysis.both_teams_scored_percentage,
                            100 * Cardinality({i \in 1..Len(filteredMatches) :
                                      /\ HasScorePair(filteredMatches[i])
                                      /\ filteredMatches[i].score.home.n > 0
                                      /\ filteredMatches[i].score.away.n > 0}),
                            Len(filteredMatches))

\* A vs B 1-1 and the record with home goals only: one draw out of one in the
\* head-to-head statistics, 50 percent both-teams-scored, 1.0 home goals and
\* 0.5 away goals per match
C22_Witness ==
    /\ pc = "done"
    /\ response.kind = "ok"
    /\ response.team_analysis.set
    /\ Len(filteredMatches) = 2
    /\ \E i \in 1..2 : filteredMatches[i] = HalfScored
    /\ response.team_analysis.head_to_head_stats.draws = 1
    /\ response.team_analysis.head_to_head_stats.draw_percentage = 10000
    /\ response.team_analysis.both_teams_scored_percentage = 5000
    /\ response.team_analysis.average_goals.average_home_goals = 100
    /\ response.team_analysis.average_goals.average_away_goals = 50

\* the result w follows the rule of the tallies over the score-valid records
\* of the fixture homeTeam vs awayTeam in ms
FollowsTallies(w, ms, homeTeam, awayTeam) ==
    LET h2h == {i \in 1..Len(ms) : PairIs(ms[i], homeTeam, awayTeam) /\ HasScorePair(ms[i])}
        home_wins == Cardinality({i \in h2h : ms[i].score.home.n > ms[i].score.away.n})
        away_wins == Cardinality({i \in h2h : ms[i].score.home.n < ms[i].score.away.n})
        draws == Cardinality({i \in h2h : ms[i].score.home.n = ms[i].score.away.n})
    IN  /\ (w.winner = "home") <=> (home_wins > away_wins /\ home_wins > draws)
        /\ (w.winner = "away") <=>
              (~(home_wins > away_wins /\ home_wins > draws)
                 /\ away_wins > home_wins /\ away_wins > draws)
        /\ w.winner \in {"home", "away", "draw"}
        /\ IsRounded(w.confidence,
                     CASE w.winner = "home" -> home_wins
                       [] w.winner = "away" -> away_wins
                       [] OTHER -> draws,
                     Cardinality(h2h))

\* C23: when the set holds a score-valid record of the requested fixture,
\* predictWinner returns home iff home_wins > away_wins and home_wins > draws,
\* else away iff away_wins > home_wins and away_wins > draws, else draw, with
\* the tally of the returned outcome over the number of score-valid records
\* of the fixture, rounded to 2 decimals, as confidence.
C23_WinnerByTallies ==
    /\ \A h \in PairNames \ {<<>>}, a \in PairNames \ {<<>>} :
          HasValidFixture(matches, h, a) =>
              FollowsTallies(predictWinner(h, a, matches), matches, h, a)
    /\ (response.kind = "ok" /\ response.prediction.set
          /\ HasValidFixture(filteredMatches, response.team_analysis.home_team,
                             response.team_analysis.away_team)) =>
          FollowsTallies([winner |-> response.prediction.predictedWinner,
                          confidence |-> response.prediction.confidence],
                         filteredMatches, response.team_analysis.home_team,
                         response.team_analysis.away_team)

(***************************************************************************)
(* Requests with valid and invalid parameter values                        *)
(***************************************************************************)
\* a day the month does not have: new \DateTime reads it as 2024-03-01
D_Feb30 == <<"2", "0", "2", "4", "-", "0", "2", "-", "3", "0">>

SanitizeRecords ==
    { Match(StrV(T_A), StrV(T_B), StrV(D_Feb), Score(IntV(2), IntV(1)), StrV(<<"x">>)),
      Match(StrV(T_B), StrV(T_A), StrV(D_Mar), Score(IntV(1), IntV(1)), Null) }

SanitizeEntries ==
    { <<K_date, D_Feb>>, <<K_date, D_Feb30>>, <<K_date, D_Bad>>,
      <<K_team, <<>> >>,
      <<K_both_teams_scored, <<"T", "r", "u", "e">> >>,
      <<K_both_teams_scored, <<"y", "e", "s">> >>,
      <<K_score_home, <<"1">> >>, <<K_score_home, <<"x">> >>,
      <<K_league, <<"X">> >>, <<K_league, <<>> >> }

InitSanitize ==
    /\ source \in {SourceOf("ok", d) : d \in SeqsUpTo(SanitizeRecords, 1)}
    /\ get \in {q \in SeqsUpTo(SanitizeEntries, MaxParams) :
                   \A i, j \in 1..Len(q) : i # j => q[i][1] # q[j][1]}
    /\ now = DateDays(D_Today)
    /\ pc = "construct"
    /\ matches = <<>>
    /\ params = <<>>
    /\ filteredMatches = <<>>
    /\ page = 0
    /\ pageSize = 0
    /\ paginatedMatches = <<>>
    /\ teamAnalysis = NullAnalysis
    /\ prediction = NullPrediction
    /\ response = NoResponse
    /\ ran = {}

SpecSanitize == InitSanitize /\ [][Next]_vars

IsLeapYear(y) == y % 4 = 0 /\ (y % 100 # 0 \/ y % 400 = 0)

DaysInMonth(y, m) ==
    IF m = 2 THEN (IF IsLeapYear(y) THEN 29 ELSE 28)
    ELSE IF m \in {4, 6, 9, 11} THEN 30 ELSE 31

\* s is YYYY-MM-DD and names a day of the calendar
ValidCalendarDate(s) ==
    /\ Len(s) = 10 /\ s[5] = "-" /\ s[8] = "-"
    /\ AllDigits(SubSeq(s, 1, 4)) /\ AllDigits(SubSeq(s, 6, 7)) /\ AllDigits(SubSeq(s, 9, 10))
    /\ DecimalVal(SubSeq(s, 6, 7)) \in 1..12
    /\ DecimalVal(SubSeq(s, 9, 10)) \in
          1..DaysInMonth(DecimalVal(SubSeq(s, 1, 4)), DecimalVal(SubSeq(s, 6, 7)))

\* the raw value is valid for its key
ValidEntry(key, value) ==
    /\ value # <<>>
    /\ (key = K_date) => ValidCalendarDate(value)
    /\ (key = K_both_teams_scored) => strtolower(value) \in BoolWords
    /\ str_starts_with(key, ScorePrefix) => is_numeric(value)

\* C24: the sanitized mapping holds only valid entries: none whose raw value
\* is the empty string, a date only for a valid calendar date, a
\* both_teams_scored only for true, false, 1 or 0 in any letter case (stored
\* lower-cased), a score_* only for a numeric value; an invalid entry is
\* absent from the mapping.
C24_OnlyValidEntries ==
    ("sanitize" \in ran) =>
        /\ \A i \in 1..Len(params) :
              /\ HasKey(get, params[i][1])
              /\ ValidEntry(params[i][1], RawValue(get, params[i][1]))
              /\ (params[i][1] = K_both_teams_scored) =>
                    params[i][2] = StrV(strtolower(RawValue(get, K_both_teams_scored)))
        /\ \A i \in 1..Len(get) :
              ~ValidEntry(get[i][1], get[i][2]) => ~HasKey(params, get[i][1])

\* the records of ms whose goal counts are both present and numeric
ScoreValid(ms) == SelectSeq(ms, HasScorePair)

\* C25: a record whose score pair is present but holds a non-numeric value is
\* score-invalid: headToHeadStats, predictWinner, expectedGoals and the
\* both-teams-to-score probability give the same result with and without
\* it, and it is never counted as a both-teams-scored match by
\* bothTeamsScoredPercentage.
C25_MalformedScoreExcluded ==
    \A ms \in {matches, filteredMatches} :
        /\ calculateHeadToHeadStats(ms) = calculateHeadToHeadStats(ScoreValid(ms))
        /\ calculateBothTeamsToScoreProb(ms) = calculateBothTeamsToScoreProb(ScoreValid(ms))
        /\ bothTeamsScoredCount(ms) = bothTeamsScoredCount(ScoreValid(ms))
        /\ \A h \in {T_A, T_B} :
              /\ calculateExpectedGoals(h, ms) = calculateExpectedGoals(h, ScoreValid(ms))
              /\ \A a \in {T_A, T_B} :
                    predictWinner(h, a, ms) = predictWinner(h, a, ScoreValid(ms))

\* C27: for every record set the head-to-head tallies add up to the number
\* of score-valid records, each record being tallied by its own home and
\* away goals; each percentage is the tally over that number, and all six
\* fields are zero when the set has no score-valid record.
C27_HeadToHeadTallies ==
    \A ms \in {matches, filteredMatches} :
        LET h == calculateHeadToHeadStats(ms)
        IN  /\ h.home_wins + h.away_wins + h.draws =
                  Cardinality({i \in 1..Len(ms) : HasScorePair(ms[i])})
            /\ TalliesOverFull(h, ms)

(***************************************************************************)
(* Requests over more records of one team than the form index considers    *)
(***************************************************************************)
MaxFormLen == 6

FormRecords ==
    { Match(StrV(T_A), StrV(T_B), StrV(D_Jan), Score(IntV(1), IntV(2)), Null),
      Match(StrV(T_B), StrV(T_A), StrV(D_Feb), Score(IntV(1), IntV(1)), Null),
      Match(StrV(T_0), StrV(T_B), StrV(D_Mar), Score(IntV(3), IntV(0)), Null) }

FormParams ==
    { <<>>,
      << <<K_home_team, T_B>>, <<K_away_team, T_a>> >> }

InitForm ==
    /\ source \in {SourceOf("ok", d) : d \in SeqsUpTo(FormRecords, MaxFormLen)}
    /\ get \in FormParams
    /\ now = DateDays(D_Today)
    /\ pc = "construct"
    /\ matches = <<>>
    /\ params = <<>>
    /\ filteredMatches = <<>>
    /\ page = 0
    /\ pageSize = 0
    /\ paginatedMatches = <<>>
    /\ teamAnalysis = NullAnalysis
    /\ prediction = NullPrediction
    /\ response = NoResponse
    /\ ran = {}

SpecForm == InitForm /\ [][Next]_vars

\* the team is the home or the away team of the record, letter case ignored
PlaysIn(m, team) ==
    \/ IsSet(m.home_team) /\ strtolower(m.home_team.s) = strtolower(team)
    \/ IsSet(m.away_team) /\ strtolower(m.away_team.s) = strtolower(team)

\* 3 for a win, 1 for a draw, 0 for a loss of the team in a record with
\* integer goals for both sides
PerspectivePoints(m, team) ==
    LET atHome == IsSet(m.home_team) /\ strtolower(m.home_team.s) = strtolower(team)
        for == IF atHome THEN m.score.home.n ELSE m.score.away.n
        against == IF atHome THEN m.score.away.n ELSE m.score.home.n
    IN  IF for > against THEN 3 ELSE IF for = against THEN 1 ELSE 0

\* r is the form index of the team over the first five of its records in ms
FormIndexIs(r, ms, team) ==
    LET own == {i \in 1..Len(ms) : PlaysIn(ms[i], team)}
        considered == {i \in own : Cardinality({j \in own : j < i}) < 5}
        points == SumOver([i \in 1..Len(ms) |->
                             IF i \in considered THEN PerspectivePoints(ms[i], team) ELSE 0],
                          Len(ms))
    IN  /\ r \in 0..10000
        /\ IF team = <<>> \/ own = {} THEN r = 0
           ELSE IsRounded(r, 100 * points, 3 * Cardinality(considered))

\* C26: formIndex(set, team) takes the first min(5, n) of the n records of the
\* set in which the team is home or away, in the given order, awards 3 points
\* for a win, 1 for a draw and 0 for a loss of the team, and returns
\* points / (3 x records considered) x 100 rounded to 2 decimals; the result
\* is within [0, 100], and is 0.0 when the team is empty or has no record.
C26_FormIndex ==
    /\ \A ms \in {matches, filteredMatches} : \A team \in PairNames :
          FormIndexIs(calculateFormIndex(ms, team), ms, team)
    /\ (response.kind = "ok" /\ response.team_analysis.set) =>
          /\ FormIndexIs(response.team_analysis.home_form_index, filteredMatches,
                         response.team_analysis.home_team)
          /\ FormIndexIs(response.team_analysis.away_form_index, filteredMatches,
                         response.team_analysis.away_team)

\* C28: in every request with both home_team and away_team, the subset of the
\* team analysis and the head-to-head subset of the prediction are both the
\* whole filtered set, so team_analysis.matches_count equals total_matches:
\* the predicates of home_team and away_team have already removed every
\* other fixture, the reverse one included.
C28_SubsetsAreFilteredSet ==
    (pc = "done" /\ response.kind = "ok"
       /\ HasKey(params, K_home_team) /\ HasKey(params, K_away_team)) =>
        LET homeTeam == Lookup(params, K_home_team).s
            awayTeam == Lookup(params, K_away_team).s
        IN  /\ teamAnalysisMatches(filteredMatches, homeTeam, awayTeam) = filteredMatches
            /\ h2hMatches(filteredMatches, homeTeam, awayTeam) = filteredMatches
            /\ response.team_analysis.set
            /\ response.team_analysis.matches_count = response.total_matches

\* the tallies over the records of the fixture in ms that have both goal
\* values, the goals read as integers
FixtureTally(ms, homeTeam, awayTeam) ==
    LET h2h == {i \in 1..Len(ms) :
                   /\ PairIs(ms[i], homeTeam, awayTeam)
                   /\ ms[i].score.set
                   /\ ms[i].score.home.t # "null" /\ ms[i].score.away.t # "null"}
        goals == [i \in h2h |-> [home |-> ScoreInt(ms[i].score.home),
                                 away |-> ScoreInt(ms[i].score.away)]]
    IN  [home |-> Cardinality({i \in h2h : goals[i].home > goals[i].away}),
         away |-> Cardinality({i \in h2h : goals[i].home < goals[i].away}),
         draw |-> Cardinality({i \in h2h : goals[i].home = goals[i].away})]

\* the three win probabilities of a prediction
ProbsOf(p) == [home |-> p.homeWinProb, draw |-> p.drawProb, away |-> p.awayWinProb]

\* C29 (as claimed): in every prediction whose predictedWinner is home, away
\* or draw, the win probability of the predicted outcome is at least that of
\* each other outcome, and the tally of the predicted outcome is at least
\* each other tally.
C29_PredictedOutcomeHighest ==
    (response.kind = "ok" /\ response.prediction.set
       /\ response.prediction.predictedWinner \in Outcomes) =>
        LET w == response.prediction.predictedWinner
            t == FixtureTally(filteredMatches, response.team_analysis.home_team,
                              response.team_analysis.away_team)
            p == ProbsOf(response.prediction)
        IN  \A o \in Outcomes : p[w] >= p[o] /\ t[w] >= t[o]

\* C29 (amended): when predictedWinner is home or away, its tally is strictly
\* greater than each other tally; when it is draw, either the draws tally is
\* at least each other tally or the home and away tallies are equal.  Unless
\* draw is reported for such a tie above the draws, the win probability of
\* the predicted outcome is at most 0.01 below that of each other outcome.
C29_PredictedOutcomeLeads ==
    (response.kind = "ok" /\ response.prediction.set
       /\ response.prediction.predictedWinner \in Outcomes) =>
        LET w == response.prediction.predictedWinner
            t == FixtureTally(filteredMatches, response.team_analysis.home_team,
                              response.team_analysis.away_team)
            p == ProbsOf(response.prediction)
        IN  /\ (w # "draw") => \A o \in Outcomes \ {w} : t[w] > t[o]
            /\ (w = "draw") => (t["draw"] >= t["home"] /\ t["draw"] >= t["away"])
                                 \/ t["home"] = t["away"]
            /\ (\A o \in Outcomes : t[w] >= t[o]) => \A o \in Outcomes : p[w] >= p[o] - 1

\* one home win and one away win: draw is predicted with confidence 0.0
C29_Witness ==
    /\ pc = "done"
    /\ response.kind = "ok"
    /\ response.prediction.set
    /\ response.prediction.predictedWinner = "draw"
    /\ response.prediction.confidence = 0
    /\ response.prediction.drawProb = 0
    /\ response.prediction.homeWinProb = 50
    /\ Len(filteredMatches) = 2

(***************************************************************************)
(* Requests for the teams of the roster                                    *)
(***************************************************************************)
\* a team name with a character that htmlspecialchars escapes
T_AAmp == <<"A", "&">>

RosterRecords ==
    { Match(StrV(T_AAmp), StrV(T_B), StrV(D_Jan), Score(IntV(1), IntV(0)), Null),
      Match(StrV(T_B), StrV(T_A), StrV(D_Feb), Score(IntV(0), IntV(0)), Null),
      Match(StrV(T_a), StrV(T_B), StrV(D_Mar), Score(IntV(1), IntV(1)), Null) }

RosterParams ==
    { <<>>,
      << <<K_team, T_AAmp>> >>,
      << <<K_team, T_A>> >>,
      << <<K_team, T_a>> >>,
      << <<K_team, T_B>> >> }

InitRoster ==
    /\ source \in {SourceOf("ok", d) : d \in SeqsUpTo(RosterRecords, MaxLen)}
    /\ get \in RosterParams
    /\ now = DateDays(D_Today)
    /\ pc = "construct"
    /\ matches = <<>>
    /\ params = <<>>
    /\ filteredMatches = <<>>
    /\ page = 0
    /\ pageSize = 0
    /\ paginatedMatches = <<>>
    /\ teamAnalysis = NullAnalysis
    /\ prediction = NullPrediction
    /\ response = NoResponse
    /\ ran = {}

SpecRoster == InitRoster /\ [][Next]_vars

\* the number of records the request team=T selects from ms
TotalForTeam(ms, T) ==
    Len(filterMatches(ms, validateAndSanitizeParams(<< <<K_team, T>> >>)).out)

\* C30: for every dataset and every team name T of the roster the request
\* team=T returns total_matches >= 1: the sanitized value matches the records
\* the raw value matches, and every record that put T on the roster passes
\* the team predicate.
C30_RosterTeamsAreFound ==
    /\ \A k \in 1..Len(getAvailableTeams(matches)) :
          TotalForTeam(matches, getAvailableTeams(matches)[k]) >= 1
    /\ (response.kind = "ok" /\ Len(get) = 1 /\ HasKey(get, K_team)
          /\ \E k \in 1..Len(response.teams) : response.teams[k] = RawValue(get, K_team)) =>
          response.total_matches >= 1

====
